---- MODULE Spec2Model ----
(***************************************************************************)
(* NDVI field-analysis server.  Two variants of the same service are      *)
(* modelled: the Process API variant (src/unnamed/part_000, raster        *)
(* imagery, OAuth token) and the Statistical API variant                  *)
(* (src/tranka/server.js, daily statistics, API key).                     *)
(*                                                                         *)
(* Numbers are fixed point: one unit is 0.001 (NDVI, degrees).  A         *)
(* quotient is rounded to the nearest unit.  NaN is the IEEE not-a-number *)
(* and propagates through arithmetic; every comparison with it is false.  *)
(***************************************************************************)
EXTENDS Integers, Sequences, FiniteSets, TLC

\* ---------------------------------------------------------------- bounds
MaxPeriod == 5
MaxTicks == 2
MaxIntervals == 2
MaxSeries == 3
MaxCallers == 2

\* ------------------------------------------------------------ arithmetic
NaN == -(10^9)
Scale == 10^3

IsNaN(x) == x = NaN

Add(a, b) == IF IsNaN(a) \/ IsNaN(b) THEN NaN ELSE a + b

Round(a, b) == (2 * a + b) \div (2 * b)

\* a / b for a count b >= 0; the only zero divisor the code meets is 0/0
Div(a, b) == IF IsNaN(a) \/ b = 0 THEN NaN ELSE Round(a, b)

\* x * (num/den) for a literal factor num/den
Times(x, num, den) == IF IsNaN(x) THEN NaN ELSE Round(x * num, den)

MathMin(a, b) == IF IsNaN(a) \/ IsNaN(b) THEN NaN ELSE IF a < b THEN a ELSE b

MathMax(a, b) == IF IsNaN(a) \/ IsNaN(b) THEN NaN ELSE IF a > b THEN a ELSE b

Ge(a, c) == ~IsNaN(a) /\ a >= c

Gt(a, c) == ~IsNaN(a) /\ a > c

Lt(a, c) == ~IsNaN(a) /\ a < c

\* the sum of numbers none of which is NaN
RECURSIVE SumPlain(_)
SumPlain(s) == IF Len(s) = 0 THEN 0 ELSE Head(s) + SumPlain(Tail(s))

\* s.reduce((a, b) => a + b, 0): NaN as soon as one summand is NaN
SumSeq(s) == IF \E k \in 1..Len(s) : IsNaN(s[k]) THEN NaN ELSE SumPlain(s)

\* round(1000 * sin(k/10)), k = 0..40
SinTable ==
  << 0, 100, 199, 296, 389, 479, 565, 644, 717, 783, 841, 891, 932, 964, 985,
     997, 1000, 992, 974, 946, 909, 863, 808, 746, 675, 598, 516, 427, 335,
     239, 141, 42, -58, -158, -256, -351, -443, -530, -612, -688, -757 >>

\* Math.sin(k/10)
SinTenths(k) == SinTable[k + 1]

\* the k-th value returned by Math.random() under the random stream rs
Random(rs, k) == rs[(k % Len(rs)) + 1]

\* ------------------------------------------------------ program constants
ClampLo == 100
ClampHi == 900
StressThreshold == 300
ForecastDays == 7
RefreshMargin == 300000
RasterSide == 100
SliceLen == 5

\* -------------------------------------------------------- classification
cellHealth_strict(ndvi) ==
  IF Gt(ndvi, 700) THEN "otlichno"
  ELSE IF Ge(ndvi, 550) THEN "horosho"
  ELSE IF Ge(ndvi, 400) THEN "sredne"
  ELSE IF Ge(ndvi, 250) THEN "ploho"
  ELSE "kritichno"

cellHealth(ndvi) ==
  IF Ge(ndvi, 700) THEN "otlichno"
  ELSE IF Ge(ndvi, 550) THEN "horosho"
  ELSE IF Ge(ndvi, 400) THEN "sredne"
  ELSE IF Ge(ndvi, 250) THEN "ploho"
  ELSE "kritichno"

cellColor(ndvi) ==
  IF Ge(ndvi, 700) THEN "#2e7d32"
  ELSE IF Ge(ndvi, 550) THEN "#7cb342"
  ELSE IF Ge(ndvi, 400) THEN "#fbc02d"
  ELSE IF Ge(ndvi, 250) THEN "#f57c00"
  ELSE "#d32f2f"

overallHealth(avgNdvi) ==
  IF Ge(avgNdvi, 700) THEN "otlichnoe"
  ELSE IF Ge(avgNdvi, 550) THEN "horoshee"
  ELSE IF Ge(avgNdvi, 400) THEN "srednee"
  ELSE IF Ge(avgNdvi, 250) THEN "plohoe"
  ELSE "kriticheskoe"

\* ------------------------------------------------------------------ grid
\* bbox = <<minLng, minLat, maxLng, maxLat>>
stepX(bbox) == Div(bbox[3] - bbox[1], 3)

stepY(bbox) == Div(bbox[4] - bbox[2], 3)

GridCell(bbox, i, j, ndvi) ==
  LET cellMinLng == bbox[1] + i * stepX(bbox)
      cellMaxLng == bbox[1] + (i + 1) * stepX(bbox)
      cellMinLat == bbox[2] + j * stepY(bbox)
      cellMaxLat == bbox[2] + (j + 1) * stepY(bbox)
  IN  [ ndvi   |-> ndvi,
        health |-> cellHealth(ndvi),
        color  |-> cellColor(ndvi),
        ring   |-> << <<cellMinLng, cellMinLat>>, <<cellMaxLng, cellMinLat>>,
                      <<cellMaxLng, cellMaxLat>>, <<cellMinLng, cellMaxLat>>,
                      <<cellMinLng, cellMinLat>> >> ]

generateGridFromMatrix_transposed(bbox, matrix) ==
  LET cells == [ k \in 1..9 |->
                   LET i == (k - 1) \div 3
                       j == (k - 1) % 3
                   IN  GridCell(bbox, i, j, matrix[i + 1][j + 1]) ]
      ndviValues == [ k \in 1..9 |-> cells[k].ndvi ]
  IN  [ grid |-> cells, avgNdvi |-> Div(SumSeq(ndviValues), Len(ndviValues)) ]

\* the cells are pushed with i (lng) in the outer loop and j (lat) inside
generateGridFromMatrix(bbox, matrix) ==
  LET cells == [ k \in 1..9 |->
                   LET i == (k - 1) \div 3
                       j == (k - 1) % 3
                   IN  GridCell(bbox, i, j, matrix[j + 1][i + 1]) ]
      ndviValues == [ k \in 1..9 |-> cells[k].ndvi ]
  IN  [ grid |-> cells, avgNdvi |-> Div(SumSeq(ndviValues), Len(ndviValues)) ]

\* k0 is the number of Math.random() calls made before the grid is built
generateGridFromStats(bbox, meanNdvi, rs, k0) ==
  LET cells == [ k \in 1..9 |->
                   LET i == (k - 1) \div 3
                       j == (k - 1) % 3
                       ndvi == Add(meanNdvi,
                                   Times(Random(rs, k0 + k - 1) - 500, 15, 100))
                   IN  GridCell(bbox, i, j, ndvi) ]
      ndviValues == [ k \in 1..9 |-> cells[k].ndvi ]
  IN  [ grid |-> cells, avgNdvi |-> Div(SumSeq(ndviValues), Len(ndviValues)) ]

\* -------------------------------------------------------------- forecast
FirstOrDefault_zero(values) ==
  IF Len(values) = 0 THEN 0
  ELSE IF values[1] = 0 \/ IsNaN(values[1]) THEN 0
  ELSE values[1]

\* values[0] || 0.5 : undefined, 0 and NaN are falsy
FirstOrDefault(values) ==
  IF Len(values) = 0 THEN 500
  ELSE IF values[1] = 0 \/ IsNaN(values[1]) THEN 500
  ELSE values[1]

clamp_noUpper(val) == MathMax(ClampLo, val)

clamp(val) == MathMin(ClampHi, MathMax(ClampLo, val))

linearForecast(values, days) ==
  IF Len(values) < 2 THEN [ h \in 1..days |-> FirstOrDefault(values) ]
  ELSE
    LET n == Len(values)
        sumX == SumSeq([ k \in 1..n |-> k - 1 ])
        sumY == SumSeq(values)
        sumXY == SumSeq([ k \in 1..n |-> Times(values[k], k - 1, 1) ])
        sumX2 == SumSeq([ k \in 1..n |-> (k - 1) * (k - 1) ])
        den == n * sumX2 - sumX * sumX
        num == n * sumXY - sumX * sumY
        \* intercept + slope * (n - 1 + i), as one quotient
        val(i) == IF IsNaN(sumY) THEN NaN
                  ELSE Round(sumY * den + num * (n * (n - 1 + i) - sumX), n * den)
    IN  [ i \in 1..days |-> clamp(val(i)) ]

\* ---------------------------------------------------------------- raster
\* A raster is [width, height, cut, a, b]: the flat band holds a in the
\* columns left of cut and b in the others.
NoDataRaw == -9999 * Scale

RasterData(r, idx) == IF (idx % r.width) < r.cut THEN r.a ELSE r.b

\* if (val < -1 || val > 1) val = NaN
DecodePixel(val) ==
  IF IsNaN(val) THEN NaN
  ELSE IF val < -Scale \/ val > Scale THEN NaN
  ELSE val

\* the 2D array ndviMatrix: rows and cols are its lengths, at[y][x] its values
ndviMatrixOf(r) ==
  [ rows |-> r.height,
    cols |-> r.width,
    at   |-> [ y \in 0..(r.height - 1) |->
               [ x \in 0..(r.width - 1) |-> DecodePixel(RasterData(r, y * r.width + x)) ] ] ]

\* !isNaN(v) ? v : nothing, as a summand
Masked(v) == IF IsNaN(v) THEN 0 ELSE v

Counted(v) == IF IsNaN(v) THEN 0 ELSE 1

\* <<sum, length>> of ndviMatrix.flat().filter(v => !isNaN(v))
validValues(m) ==
  << SumPlain([ y \in 1..m.rows |-> SumPlain([ x \in 1..m.cols |-> Masked(m.at[y - 1][x - 1]) ]) ]),
     SumPlain([ y \in 1..m.rows |-> SumPlain([ x \in 1..m.cols |-> Counted(m.at[y - 1][x - 1]) ]) ]) >>

\* ndviArray[y][x] within the guard x < 100 && y < 100 && !isNaN(...);
\* a column x missing from the row reads undefined, which isNaN
Guarded(arr, y, x) ==
  IF x < RasterSide /\ y < RasterSide /\ x < arr.cols THEN arr.at[y][x] ELSE NaN

\* <<sum, count>> of one block of aggregateTo3x3: x outer loop, y inner loop
BlockAcc(arr, xStart, xEnd, yStart, yEnd) ==
  << SumPlain([ kx \in 1..(xEnd - xStart) |->
                  SumPlain([ ky \in 1..(yEnd - yStart) |->
                               Masked(Guarded(arr, yStart + ky - 1, xStart + kx - 1)) ]) ]),
     SumPlain([ kx \in 1..(xEnd - xStart) |->
                  SumPlain([ ky \in 1..(yEnd - yStart) |->
                               Counted(Guarded(arr, yStart + ky - 1, xStart + kx - 1)) ]) ]) >>

\* Math.floor(i * blockSize) with blockSize = 100 / 3
BlockBound(i) == (i * RasterSide) \div 3

\* ndviArray[y] is undefined for a missing row y, and reading [x] of it throws
aggregateThrows(ndviArray) ==
  \E y \in 0..(RasterSide - 1) : y >= ndviArray.rows

\* the read ndviArray[y][x] of block row j throws on a missing row y
blockThrows(ndviArray, j) == BlockBound(j + 1) > ndviArray.rows

BlockMean_unguarded(arr, i, j) ==
  CHOOSE q \in { Div(acc[1], acc[2]) :
                 acc \in { BlockAcc(arr, BlockBound(i), BlockBound(i + 1),
                                    BlockBound(j), BlockBound(j + 1)) } } : TRUE

\* count > 0 ? sum / count : 0 for the block (i, j); acc is bound once
BlockMean(arr, i, j) ==
  CHOOSE q \in { IF acc[2] > 0 THEN Div(acc[1], acc[2]) ELSE 0 :
                 acc \in { BlockAcc(arr, BlockBound(i), BlockBound(i + 1),
                                    BlockBound(j), BlockBound(j + 1)) } } : TRUE

\* result[j][i], j - lat, i - lng, as a 1-based 3x3 tuple
aggregateTo3x3(ndviArray) ==
  [ jj \in 1..3 |-> [ ii \in 1..3 |-> BlockMean(ndviArray, ii - 1, jj - 1) ] ]

\* ---------------------------------------------------------------- inputs
Pt(lng, lat) == [ok |-> TRUE, lng |-> lng, lat |-> lat]

\* an element that cannot be destructured as [lng, lat] (a number, null)
BadPt == [ok |-> FALSE, lng |-> 0, lat |-> 0]

Arr(pts) == [kind |-> "array", pts |-> pts]

\* kind "null": polygon absent; kind "scalar": a truthy value that is no array
Polygons ==
  { [kind |-> "null", pts |-> <<>>],
    [kind |-> "scalar", pts |-> <<>>],
    Arr(<<>>),
    Arr(<<Pt(0, 0)>>),
    Arr(<<Pt(0, 0), Pt(1000, 1000)>>),
    Arr(<<Pt(0, 0), Pt(0, 1000), Pt(1000, 1000), Pt(1000, 0)>>),
    Arr(<<Pt(10, 20), Pt(40, 20), Pt(25, 50)>>),
    Arr(<<Pt(0, 0), Pt(0, 1000), Pt(0, 2000)>>),
    Arr(<<Pt(0, 0), BadPt, Pt(1000, 1000)>>) }

Periods == {0, 1, 2, MaxPeriod}

\* values of Math.random() in [0, 1)
RandomStreams == { <<0>>, <<500>>, <<999, 0>> }

Rect(w, h, cut, a, b) == [width |-> w, height |-> h, cut |-> cut, a |-> a, b |-> b]

Full(cut, a, b) == Rect(RasterSide, RasterSide, cut, a, b)

NoRaster == Rect(0, 0, 0, 0, 0)

Rasters ==
  { Full(0, v, v) : v \in {NoDataRaw, NaN, 1500, -300, 250, 400, 550, 700} }
  \cup { Full(50, 300, 250), Full(50, NoDataRaw, 600), Full(20, 100, NoDataRaw),
         Full(50, NoDataRaw, NaN), Rect(2, 2, 0, 700, 700), Rect(2, 2, 0, NaN, NaN),
         Rect(120, 120, 0, 450, 450), NoRaster }

\* one interval of the Statistical API answer; hasStats is
\* interval.interval && interval.outputs?.ndvi?.bands?.B0?.stats
Interval(hasStats, mean) == [hasStats |-> hasStats, mean |-> mean]

Means == {300, 700}

IntervalSeqs ==
  UNION { [1..n -> { Interval(TRUE, m) : m \in Means } \cup { Interval(FALSE, 0) }]
          : n \in 0..MaxIntervals }

\* shape "null": the JSON value null; "nodata": an object without data;
\* "data": an object whose data is the array of intervals
StatsBodies ==
  { [shape |-> "null", data |-> <<>>], [shape |-> "nodata", data |-> <<>>] }
  \cup { [shape |-> "data", data |-> d] : d \in IntervalSeqs }

NoStats == [shape |-> "nodata", data |-> <<>>]

\* what the imagery collaborator answers: a rejected fetch, a non-ok status,
\* an ok status with a body that does not parse, or an ok status with a body
Payloads ==
  { [kind |-> k, raster |-> NoRaster, stats |-> NoStats] : k \in {"neterr", "httperr", "unparsable"} }

ProcessPayloads ==
  Payloads \cup { [kind |-> "body", raster |-> r, stats |-> NoStats] : r \in Rasters }

StatsPayloads ==
  Payloads \cup { [kind |-> "body", raster |-> NoRaster, stats |-> b] : b \in StatsBodies }

NoPayload == [kind |-> "none", raster |-> NoRaster, stats |-> NoStats]

Decoded == [ r \in Rasters |-> ndviMatrixOf(r) ]

Valid == [ r \in Rasters |-> validValues(Decoded[r]) ]

Aggregated ==
  [ r \in Rasters |->
      IF aggregateThrows(Decoded[r])
      THEN [threw |-> TRUE, matrix |-> <<>>]
      ELSE [threw |-> FALSE, matrix |-> aggregateTo3x3(Decoded[r])] ]

\* ------------------------------------------------------------ validation
\* part_000: !polygon || polygon.length < 3  (undefined < 3 is false)
rejectsProcess(polygon) ==
  polygon.kind = "null" \/ (polygon.kind = "array" /\ Len(polygon.pts) < 3)

\* server.js: !polygon || polygon.length === 0
rejectsStats(polygon) ==
  polygon.kind = "null" \/ (polygon.kind = "array" /\ Len(polygon.pts) = 0)

rejects(v, polygon) ==
  IF v = "process" THEN rejectsProcess(polygon) ELSE rejectsStats(polygon)

\* ------------------------------------------------------------------ bbox
\* polygon.forEach(([lng, lat]) => ...) throws a TypeError when polygon has
\* no forEach or an element cannot be destructured
bboxThrows(polygon) ==
  polygon.kind # "array" \/ \E k \in 1..Len(polygon.pts) : ~polygon.pts[k].ok

MinOf(S) == CHOOSE m \in S : \A x \in S : m <= x

MaxOf(S) == CHOOSE m \in S : \A x \in S : m >= x

\* <<minLng, minLat, maxLng, maxLat>> after the 10% padding
computeBBox(pts) ==
  LET lngs == { pts[k].lng : k \in 1..Len(pts) }
      lats == { pts[k].lat : k \in 1..Len(pts) }
      lngPad == Times(MaxOf(lngs) - MinOf(lngs), 1, 10)
      latPad == Times(MaxOf(lats) - MinOf(lats), 1, 10)
  IN  << MinOf(lngs) - lngPad, MinOf(lats) - latPad,
         MaxOf(lngs) + lngPad, MaxOf(lats) + latPad >>

NoBBox == <<0, 0, 0, 0>>

center(bbox) == [lat |-> Div(bbox[2] + bbox[4], 2), lon |-> Div(bbox[1] + bbox[3], 2)]

\* ---------------------------------------------------------------- series
\* i runs from period down to 0; the k-th point (k = 1..period+1) has i = period-k+1
syntheticSeries(period, rs, k0) ==
  [ k \in 1..(period + 1) |->
      500 + Times(SinTenths(period - k + 1), 2, 10)
          + Times(Random(rs, k0 + k - 1), 1, 10) ]

\* avgNdvi + Math.sin(i / 5) * 0.05 + (Math.random() * 0.02 - 0.01), clamped
anchoredSeries(avgNdvi, period, rs, k0) ==
  [ k \in 1..(period + 1) |->
      clamp(Add(avgNdvi, Times(SinTenths(2 * (period - k + 1)), 5, 100)
                         + Times(Random(rs, k0 + k - 1), 2, 100) - 10)) ]

\* values.slice(-m)
SliceLast(values, m) ==
  IF Len(values) <= m THEN values
  ELSE [ k \in 1..m |-> values[Len(values) - m + k] ]

\* server.js: the last value, or 0.5, plus a jitter, clamped
jitterForecast(values, rs, k0) ==
  LET lastValue == IF Len(values) = 0 THEN 500
                   ELSE IF values[Len(values)] = 0 \/ IsNaN(values[Len(values)]) THEN 500
                   ELSE values[Len(values)]
  IN  [ i \in 1..ForecastDays |->
          clamp(lastValue + Times(Random(rs, k0 + i - 1) - 500, 5, 100)) ]

\* ------------------------------------------------------------ acquisition
\* the locals usingRealData, ndviMatrix, avgNdvi after the Process API try
\* block; hasAvg is avgNdvi !== undefined, hasMatrix is ndviMatrix !== null
acquireProcess(p) ==
  IF p.kind # "body"
  THEN [usingRealData |-> FALSE, hasMatrix |-> FALSE, hasAvg |-> FALSE, avgNdvi |-> 0]
  ELSE IF Valid[p.raster][2] = 0
  THEN [usingRealData |-> FALSE, hasMatrix |-> TRUE, hasAvg |-> FALSE, avgNdvi |-> 0]
  ELSE [usingRealData |-> TRUE, hasMatrix |-> TRUE, hasAvg |-> TRUE,
        avgNdvi |-> Div(Valid[p.raster][1], Valid[p.raster][2])]

\* usingRealData && avgNdvi !== undefined
useAnchoredSeries(acq) == acq.usingRealData /\ acq.hasAvg

useRasterGrid_matrixOnly(acq) == acq.hasMatrix

\* usingRealData && ndviMatrix
useRasterGrid(acq) == acq.usingRealData /\ acq.hasMatrix

seriesProcess(acq, period, rs) ==
  IF useAnchoredSeries(acq)
  THEN [from |-> "anchored", values |-> anchoredSeries(acq.avgNdvi, period, rs, 0),
        avgNdvi |-> acq.avgNdvi]
  ELSE [from |-> "synthetic", values |-> syntheticSeries(period, rs, 0),
        avgNdvi |-> Div(SumSeq(syntheticSeries(period, rs, 0)), period + 1)]

\* the test grid around avgNdvi
testMatrix(avgNdvi) ==
  << << Add(avgNdvi, 100), Add(avgNdvi, -50), Add(avgNdvi, 20) >>,
     << Add(avgNdvi, -30), Add(avgNdvi, 70), Add(avgNdvi, -80) >>,
     << Add(avgNdvi, 40), Add(avgNdvi, -20), Add(avgNdvi, 50) >> >>

gridProcess(acq, avgNdvi, bbox, raster) ==
  IF useRasterGrid(acq)
  THEN IF Aggregated[raster].threw
       THEN [threw |-> TRUE, from |-> "raster", grid |-> <<>>, avgNdvi |-> avgNdvi]
       ELSE [threw |-> FALSE, from |-> "raster",
             grid |-> generateGridFromMatrix(bbox, Aggregated[raster].matrix).grid,
             avgNdvi |-> generateGridFromMatrix(bbox, Aggregated[raster].matrix).avgNdvi]
  ELSE [threw |-> FALSE, from |-> "synthetic",
        grid |-> generateGridFromMatrix(bbox, testMatrix(avgNdvi)).grid,
        avgNdvi |-> avgNdvi]

\* the locals usingRealData and statsData after the Statistical API try block
acquireStats(p) ==
  [usingRealData |-> p.kind = "body", body |-> p.stats]

\* reading statsData.data of the JSON value null throws a TypeError
seriesThrows(acq) == acq.usingRealData /\ acq.body.shape = "null"

\* usingRealData && statsData.data && statsData.data.length > 0
useRealSeries(acq) ==
  acq.usingRealData /\ acq.body.shape = "data" /\ Len(acq.body.data) > 0

statsMeans(data) ==
  LET kept == SelectSeq(data, LAMBDA e : e.hasStats)
  IN  [ k \in 1..Len(kept) |-> kept[k].mean ]

\* randoms is the number of Math.random() calls the series used
seriesStats(acq, period, rs) ==
  IF useRealSeries(acq)
  THEN [from |-> "real", values |-> statsMeans(acq.body.data), randoms |-> 0,
        avgNdvi |-> Div(SumSeq(statsMeans(acq.body.data)), Len(statsMeans(acq.body.data)))]
  ELSE [from |-> "synthetic", values |-> syntheticSeries(period, rs, 0),
        randoms |-> period + 1,
        avgNdvi |-> Div(SumSeq(syntheticSeries(period, rs, 0)), period + 1)]

\* -------------------------------------------------------------- response
isStress_le(f) == ~IsNaN(f.ndvi) /\ f.ndvi <= StressThreshold

\* f.properties.ndvi < 0.3
isStress(f) == Lt(f.ndvi, StressThreshold)

\* (stressFeatures.length / grid.features.length) * 100, as a fraction
stressPercent(stressFeatures, grid) ==
  [num |-> Len(stressFeatures) * 100, den |-> Len(grid)]

recommend(avgNdvi, sp) ==
  [ level |-> IF Gt(avgNdvi, 600) THEN "good"
              ELSE IF Gt(avgNdvi, 400) THEN "medium" ELSE "critical",
    stressLine |-> sp.num > 20 * sp.den ]

NoSummary ==
  [avg_ndvi |-> 0, health |-> "", stress_percent |-> [num |-> 0, den |-> 1],
   center |-> [lat |-> 0, lon |-> 0]]

ErrorResponse(code) ==
  [ status |-> code, data_source |-> "", time_series |-> <<>>, forecast |-> <<>>,
    health_grid |-> <<>>, stress_zones |-> <<>>, summary |-> NoSummary,
    recommendation |-> [level |-> "", stressLine |-> FALSE] ]

NoResponse == ErrorResponse(0)

\* the result object sent with res.json
result(avgNdvi, grid, values, forecast, usingRealData, bbox) ==
  [ status |-> 200,
    data_source |-> IF usingRealData THEN "real" ELSE "synthetic",
    time_series |-> values,
    forecast |-> forecast,
    health_grid |-> grid,
    stress_zones |-> SelectSeq(grid, isStress),
    summary |-> [ avg_ndvi |-> avgNdvi,
                  health |-> overallHealth(avgNdvi),
                  stress_percent |-> stressPercent(SelectSeq(grid, isStress), grid),
                  center |-> center(bbox) ],
    recommendation |-> recommend(avgNdvi, stressPercent(SelectSeq(grid, isStress), grid)) ]

\* ----------------------------------------------------------------- state
Tokens == {"tokA", "tokB"}

\* expires_in of the token answer, in seconds
ExpiresIn == {600, 900}

NoRequest == [polygon |-> [kind |-> "null", pts |-> <<>>], period |-> 0, rs |-> <<0>>]

NoLocals == [usingRealData |-> FALSE, seriesFrom |-> "none", gridFrom |-> "none"]

VARIABLES
  variant,       \* "process": part_000, "stats": server.js
  cachedToken,   \* module variable of part_000, "null" when unset
  tokenExpiry,   \* module variable of part_000, ms
  now,           \* Date.now(), ms
  pc,            \* position of the handler: idle, token, imagery, done
  req,           \* req.body and the random source of the request in progress
  bbox,          \* local bbox
  accessToken,   \* local accessToken
  tokenReqs,     \* fetches of the token URL issued by this request
  imageryReqs,   \* fetches of the imagery URL issued by this request
  tokenOutcome,  \* how getAccessToken ended: none, cached, ok, httperr, neterr
  payload,       \* what the imagery collaborator answered
  steps,         \* the computations this request has entered
  locals,        \* usingRealData and the branches taken
  resp,          \* the response sent, status 0 while none is
  fcIn,          \* argument of a direct call of linearForecast
  fcOut,         \* its return value
  callIn,        \* argument of a direct call of another helper
  callOut,       \* the progress and the return value of that call
  callers        \* the concurrent calls of getAccessToken

vars == << variant, cachedToken, tokenExpiry, now, pc, req, bbox, accessToken,
           tokenReqs, imageryReqs, tokenOutcome, payload, steps, locals, resp,
           fcIn, fcOut, callIn, callOut, callers >>

directVars == << callIn, callOut, callers >>

handlerVars == << pc, req, bbox, accessToken, tokenReqs, imageryReqs,
                  tokenOutcome, payload, steps, locals, resp >>

Idle ==
  /\ pc = "idle"
  /\ req = NoRequest
  /\ bbox = NoBBox
  /\ accessToken = "null"
  /\ tokenReqs = 0
  /\ imageryReqs = 0
  /\ tokenOutcome = "none"
  /\ payload = NoPayload
  /\ steps = {}
  /\ locals = NoLocals
  /\ resp = NoResponse

\* no direct call is in progress
NoDirect ==
  /\ callIn = <<>>
  /\ callOut = <<>>
  /\ callers = <<>>

Init ==
  /\ variant \in {"process", "stats"}
  /\ cachedToken = "null"
  /\ tokenExpiry = 0
  /\ now = 0
  /\ Idle
  /\ fcIn = <<>>
  /\ fcOut = <<>>
  /\ NoDirect

tokenFresh_noMargin == cachedToken # "null" /\ now < tokenExpiry

\* cachedToken && Date.now() < tokenExpiry - 300000
tokenFresh == cachedToken # "null" /\ now < tokenExpiry - RefreshMargin

\* The handler from the arrival of the request to its first await that
\* leaves the process: validation, bbox, getAccessToken up to its fetch
\* (part_000) or the imagery fetch.
Receive ==
  /\ pc = "idle"
  /\ \E polygon \in Polygons, period \in Periods, rs \in RandomStreams :
       /\ req' = [polygon |-> polygon, period |-> period, rs |-> rs]
       /\ IF rejects(variant, polygon)
          THEN /\ resp' = ErrorResponse(400)
               /\ pc' = "done"
               /\ UNCHANGED <<bbox, accessToken, tokenReqs, imageryReqs, tokenOutcome, steps>>
          ELSE IF bboxThrows(polygon)
          THEN /\ resp' = ErrorResponse(500)
               /\ pc' = "done"
               /\ steps' = {"bbox"}
               /\ UNCHANGED <<bbox, accessToken, tokenReqs, imageryReqs, tokenOutcome>>
          ELSE /\ bbox' = computeBBox(polygon.pts)
               /\ resp' = resp
               /\ IF variant = "process" /\ ~tokenFresh
                  THEN /\ pc' = "token"
                       /\ tokenReqs' = 1
                       /\ steps' = {"bbox", "token"}
                       /\ UNCHANGED <<accessToken, imageryReqs, tokenOutcome>>
                  ELSE /\ pc' = "imagery"
                       /\ imageryReqs' = 1
                       /\ steps' = {"bbox", "imagery"}
                       /\ accessToken' = IF variant = "process" THEN cachedToken ELSE accessToken
                       /\ tokenOutcome' = IF variant = "process" THEN "cached" ELSE tokenOutcome
                       /\ UNCHANGED tokenReqs
  /\ UNCHANGED <<variant, cachedToken, tokenExpiry, now, payload, locals, fcIn, fcOut, directVars>>

\* getAccessToken after its fetch: a failure is thrown into the handler's
\* outer catch; a success caches the token and the handler fetches imagery
TokenReply ==
  /\ pc = "token"
  /\ \/ \E outcome \in {"httperr", "neterr"} :
          /\ tokenOutcome' = outcome
          /\ resp' = ErrorResponse(500)
          /\ pc' = "done"
          /\ UNCHANGED <<cachedToken, tokenExpiry, accessToken, imageryReqs, steps>>
     \/ \E token \in Tokens, expires_in \in ExpiresIn :
          /\ tokenOutcome' = "ok"
          /\ cachedToken' = token
          /\ tokenExpiry' = now + expires_in * 1000
          /\ accessToken' = token
          /\ imageryReqs' = imageryReqs + 1
          /\ steps' = steps \cup {"imagery"}
          /\ pc' = "imagery"
          /\ resp' = resp
  /\ UNCHANGED <<variant, now, req, bbox, tokenReqs, payload, locals, fcIn, fcOut, directVars>>

\* part_000 from the answer p of the Process API to the response
ProcessAnswer(p) ==
  /\ \E acq \in { acquireProcess(p) } :
     \E ts \in { seriesProcess(acq, req.period, req.rs) } :
     \E fc \in { linearForecast(SliceLast(ts.values, SliceLen), ForecastDays) } :
     \E g \in { gridProcess(acq, ts.avgNdvi, bbox, p.raster) } :
       /\ payload' = p
       /\ steps' = steps \cup {"series", "forecast", "grid"}
       /\ locals' = [usingRealData |-> acq.usingRealData,
                     seriesFrom |-> ts.from, gridFrom |-> g.from]
       /\ resp' = IF g.threw THEN ErrorResponse(500)
                  ELSE result(g.avgNdvi, g.grid, ts.values, fc, acq.usingRealData, bbox)
  /\ pc' = "done"
  /\ UNCHANGED <<variant, cachedToken, tokenExpiry, now, req, bbox, accessToken,
                 tokenReqs, imageryReqs, tokenOutcome, fcIn, fcOut, directVars>>

ProcessReply_retry ==
  /\ pc = "imagery"
  /\ variant = "process"
  /\ \E p \in ProcessPayloads :
       IF p.kind # "body" /\ imageryReqs < 2
       THEN /\ imageryReqs' = imageryReqs + 1
            /\ payload' = p
            /\ UNCHANGED <<variant, cachedToken, tokenExpiry, now, pc, req, bbox,
                           accessToken, tokenReqs, tokenOutcome, steps, locals,
                           resp, fcIn, fcOut, directVars>>
       ELSE ProcessAnswer(p)

ProcessReply ==
  /\ pc = "imagery"
  /\ variant = "process"
  /\ \E p \in ProcessPayloads : ProcessAnswer(p)

\* server.js from the answer of the Statistical API to the response
StatsReply ==
  /\ pc = "imagery"
  /\ variant = "stats"
  /\ \E p \in StatsPayloads :
     \E acq \in { acquireStats(p) } :
       /\ payload' = p
       /\ IF seriesThrows(acq)
          THEN /\ steps' = steps \cup {"series"}
               /\ locals' = [usingRealData |-> acq.usingRealData,
                             seriesFrom |-> "none", gridFrom |-> "none"]
               /\ resp' = ErrorResponse(500)
          ELSE \E ts \in { seriesStats(acq, req.period, req.rs) } :
               \E fc \in { jitterForecast(ts.values, req.rs, ts.randoms) } :
               \E g \in { generateGridFromStats(bbox, ts.avgNdvi, req.rs,
                                                ts.randoms + ForecastDays) } :
                 /\ steps' = steps \cup {"series", "forecast", "grid"}
                 /\ locals' = [usingRealData |-> acq.usingRealData,
                               seriesFrom |-> ts.from, gridFrom |-> "stats"]
                 /\ resp' = result(ts.avgNdvi, g.grid, ts.values, fc,
                                   acq.usingRealData, bbox)
  /\ pc' = "done"
  /\ UNCHANGED <<variant, cachedToken, tokenExpiry, now, req, bbox, accessToken,
                 tokenReqs, imageryReqs, tokenOutcome, fcIn, fcOut, directVars>>

\* the response is out; the handler's locals are gone
Finish ==
  /\ pc = "done"
  /\ pc' = "idle"
  /\ req' = NoRequest
  /\ bbox' = NoBBox
  /\ accessToken' = "null"
  /\ tokenReqs' = 0
  /\ imageryReqs' = 0
  /\ tokenOutcome' = "none"
  /\ payload' = NoPayload
  /\ steps' = {}
  /\ locals' = NoLocals
  /\ resp' = NoResponse
  /\ UNCHANGED <<variant, cachedToken, tokenExpiry, now, fcIn, fcOut, directVars>>

\* time passes between requests
Tick ==
  /\ pc = "idle"
  /\ now < MaxTicks * RefreshMargin
  /\ now' = now + RefreshMargin
  /\ UNCHANGED <<variant, cachedToken, tokenExpiry, handlerVars, fcIn, fcOut, directVars>>

Next == Receive \/ TokenReply \/ ProcessReply \/ StatsReply \/ Finish \/ Tick

Spec == Init /\ [][Next]_vars

\* ----------------------------------------- direct calls of linearForecast
SeriesValues == {0, 50, 500, 700, 950}

SeriesInputs == UNION { [1..n -> SeriesValues] : n \in 0..MaxSeries }

LFInit ==
  /\ variant = "process"
  /\ cachedToken = "null"
  /\ tokenExpiry = 0
  /\ now = 0
  /\ Idle
  /\ fcIn \in SeriesInputs
  /\ fcOut = <<>>
  /\ NoDirect

LFCall ==
  /\ fcOut = <<>>
  /\ fcOut' = linearForecast(fcIn, ForecastDays)
  /\ UNCHANGED <<variant, cachedToken, tokenExpiry, now, handlerVars, fcIn, directVars>>

LFReturn ==
  /\ fcOut # <<>>
  /\ fcOut' = <<>>
  /\ \E s \in SeriesInputs : fcIn' = s
  /\ UNCHANGED <<variant, cachedToken, tokenExpiry, now, handlerVars, directVars>>

LFNext == LFCall \/ LFReturn

LFSpec == LFInit /\ [][LFNext]_vars

\* ----------------------------------------- direct calls of aggregateTo3x3
\* Array(3).fill().map(() => Array(3).fill(0))
ZeroMatrix == << <<0, 0, 0>>, <<0, 0, 0>>, <<0, 0, 0>> >>

\* the call has entered its loops; k blocks are done
AggEntered == [pc |-> "loop", k |-> 0, result |-> ZeroMatrix]

AggInit ==
  /\ variant = "process"
  /\ cachedToken = "null"
  /\ tokenExpiry = 0
  /\ now = 0
  /\ Idle
  /\ fcIn = <<>>
  /\ fcOut = <<>>
  /\ callIn \in Rasters
  /\ callOut = AggEntered
  /\ callers = <<>>

\* one pass of the body of the i, j loops: i outer, j inner
AggBlock ==
  /\ callOut.pc = "loop"
  /\ \E i \in { callOut.k \div 3 }, j \in { callOut.k % 3 } :
       IF blockThrows(Decoded[callIn], j)
       THEN callOut' = [callOut EXCEPT !.pc = "threw"]
       ELSE callOut' = [ pc |-> IF callOut.k = 8 THEN "returned" ELSE "loop",
                         k |-> callOut.k + 1,
                         result |-> [callOut.result EXCEPT ![j + 1][i + 1] =
                                       BlockMean(Decoded[callIn], i, j)] ]
  /\ UNCHANGED <<variant, cachedToken, tokenExpiry, now, handlerVars, fcIn, fcOut,
                 callIn, callers>>

\* the call is over; the next call gets its argument
AggReturn ==
  /\ callOut.pc \in {"returned", "threw"}
  /\ \E r \in Rasters : callIn' = r
  /\ callOut' = AggEntered
  /\ UNCHANGED <<variant, cachedToken, tokenExpiry, now, handlerVars, fcIn, fcOut,
                 callers>>

AggNext == AggBlock \/ AggReturn

AggSpec == AggInit /\ [][AggNext]_vars

\* --------------------------------- direct calls of generateGridFromMatrix
\* bounding boxes as the handler pads them, one of them of zero width
GridBBoxes ==
  { computeBBox(<<Pt(0, 0), Pt(0, 1000), Pt(1000, 1000), Pt(1000, 0)>>),
    computeBBox(<<Pt(10, 20), Pt(40, 20), Pt(25, 50)>>),
    computeBBox(<<Pt(0, 0), Pt(0, 1000), Pt(0, 2000)>>),
    <<0, 0, 3000, 3000>>, <<-3000, 1000, 6000, 1030>>, <<1, 1, 2, 3>>,
    <<74500, 42800, 74590, 42860>> }

\* 3x3 matrices as aggregateTo3x3 returns them or as the handler builds them
GridMatrices ==
  { ZeroMatrix, testMatrix(500), testMatrix(250), testMatrix(NaN),
    << <<100, 200, 300>>, <<400, 500, 600>>, <<700, 800, 900>> >>,
    << <<0, 600, 600>>, <<0, 600, 600>>, <<0, 600, 600>> >>,
    << <<-300, -300, -300>>, <<250, 250, 250>>, <<700, 699, 701>> >>,
    << <<550, 549, 400>>, <<399, 300, 299>>, <<1000, -1000, 0>> >> }

GridEntered == [pc |-> "entered", grid |-> <<>>, avgNdvi |-> 0]

GridInit ==
  /\ variant = "process"
  /\ cachedToken = "null"
  /\ tokenExpiry = 0
  /\ now = 0
  /\ Idle
  /\ fcIn = <<>>
  /\ fcOut = <<>>
  /\ \E b \in GridBBoxes, m \in GridMatrices : callIn = [bbox |-> b, matrix |-> m]
  /\ callOut = GridEntered
  /\ callers = <<>>

GridCall ==
  /\ callOut.pc = "entered"
  /\ \E g \in { generateGridFromMatrix(callIn.bbox, callIn.matrix) } :
       callOut' = [pc |-> "returned", grid |-> g.grid, avgNdvi |-> g.avgNdvi]
  /\ UNCHANGED <<variant, cachedToken, tokenExpiry, now, handlerVars, fcIn, fcOut,
                 callIn, callers>>

GridReturn ==
  /\ callOut.pc = "returned"
  /\ \E b \in GridBBoxes, m \in GridMatrices : callIn' = [bbox |-> b, matrix |-> m]
  /\ callOut' = GridEntered
  /\ UNCHANGED <<variant, cachedToken, tokenExpiry, now, handlerVars, fcIn, fcOut,
                 callers>>

GridNext == GridCall \/ GridReturn

GridSpec == GridInit /\ [][GridNext]_vars

\* ---------------------------------------- concurrent calls of getAccessToken
Callers == 1..MaxCallers

\* a call that has not started: no request issued, nothing returned
NotCalling == [pc |-> "idle", reqs |-> 0, ret |-> "null", expires_in |-> 0]

TokInit ==
  /\ variant = "process"
  /\ cachedToken = "null"
  /\ tokenExpiry = 0
  /\ now = 0
  /\ Idle
  /\ fcIn = <<>>
  /\ fcOut = <<>>
  /\ callIn = <<>>
  /\ callOut = <<>>
  /\ callers = [c \in Callers |-> NotCalling]

\* getAccessToken from its entry to its return or to the await of its fetch
GetTokenCall(c) ==
  /\ callers[c].pc = "idle"
  /\ IF tokenFresh
     THEN callers' = [callers EXCEPT ![c] = [pc |-> "returned", reqs |-> 0,
                                             ret |-> cachedToken, expires_in |-> 0]]
     ELSE callers' = [callers EXCEPT ![c] = [pc |-> "fetch", reqs |-> 1,
                                             ret |-> "null", expires_in |-> 0]]
  /\ UNCHANGED <<variant, cachedToken, tokenExpiry, now, handlerVars, fcIn, fcOut,
                 callIn, callOut>>

\* getAccessToken from the answer to its fetch to its return or throw: the
\* fetch rejects, the status is not ok, the body is no JSON object, or the
\* body carries access_token and expires_in
GetTokenReply(c) ==
  /\ callers[c].pc = "fetch"
  /\ \/ /\ \E outcome \in {"neterr", "httperr", "unparsable"} :
            callers' = [callers EXCEPT ![c].pc = "threw"]
        /\ UNCHANGED <<cachedToken, tokenExpiry>>
     \/ \E token \in Tokens, expires_in \in ExpiresIn :
          /\ cachedToken' = token
          /\ tokenExpiry' = now + expires_in * 1000
          /\ callers' = [callers EXCEPT ![c] = [pc |-> "returned", reqs |-> callers[c].reqs,
                                                ret |-> token, expires_in |-> expires_in]]
  /\ UNCHANGED <<variant, now, handlerVars, fcIn, fcOut, callIn, callOut>>

\* the caller has its token or its error
GetTokenDone(c) ==
  /\ callers[c].pc \in {"returned", "threw"}
  /\ callers' = [callers EXCEPT ![c] = NotCalling]
  /\ UNCHANGED <<variant, cachedToken, tokenExpiry, now, handlerVars, fcIn, fcOut,
                 callIn, callOut>>

\* time passes, also while fetches are in flight
TokTick ==
  /\ now < MaxTicks * RefreshMargin
  /\ now' = now + RefreshMargin
  /\ UNCHANGED <<variant, cachedToken, tokenExpiry, handlerVars, fcIn, fcOut,
                 callIn, callOut, callers>>

TokNext ==
  \/ \E c \in Callers : GetTokenCall(c)
  \/ \E c \in Callers : GetTokenReply(c)
  \/ \E c \in Callers : GetTokenDone(c)
  \/ TokTick

TokSpec == TokInit /\ [][TokNext]_vars

\* ================================================================ claims
\* an array of at least 3 [lng, lat] pairs
ValidPolygon(polygon) ==
  /\ polygon.kind = "array"
  /\ Len(polygon.pts) >= 3
  /\ \A k \in 1..Len(polygon.pts) : polygon.pts[k].ok

\* missing, empty, or malformed: no array, an element that is no pair, or
\* fewer than the 3 vertices a polygon has
InvalidPolygon(polygon) ==
  \/ polygon.kind = "null"
  \/ polygon.kind = "scalar"
  \/ polygon.kind = "array" /\ Len(polygon.pts) < 3
  \/ polygon.kind = "array" /\ \E k \in 1..Len(polygon.pts) : ~polygon.pts[k].ok

NoDataPixel(v) == IsNaN(v) \/ v < -Scale \/ v > Scale

\* every pixel of the raster is NaN or outside [-1, 1]
AllNoData(r) ==
  /\ (r.cut > 0 /\ r.width > 0 /\ r.height > 0) => NoDataPixel(r.a)
  /\ (r.cut < r.width /\ r.height > 0) => NoDataPixel(r.b)

\* the statistics answer carries no usable interval
EmptyStats(b) == b.shape # "data" \/ \A k \in 1..Len(b.data) : ~b.data[k].hasStats

AcquisitionFailed ==
  \/ tokenOutcome \in {"httperr", "neterr"}
  \/ payload.kind \in {"neterr", "httperr", "unparsable"}
  \/ payload.kind = "body" /\ variant = "process" /\ AllNoData(payload.raster)
  \/ payload.kind = "body" /\ variant = "stats" /\ EmptyStats(payload.stats)

InRange(v) == ~IsNaN(v) /\ v >= 100 /\ v <= 900

\* C1: for a valid polygon, a failure of imagery acquisition (token endpoint,
\* network, HTTP status, unparsable, empty or invalid payload, no valid
\* pixel) ends in a successful response with a synthetic result, never in a 500.
C1_AcquisitionFailureNeverFails ==
  (pc = "done" /\ ValidPolygon(req.polygon) /\ AcquisitionFailed)
    => (resp.status = 200 /\ resp.data_source = "synthetic")

\* C2: a missing, empty or malformed polygon is answered with 400 and nothing
\* else is done: no bbox, no token or imagery request, no series, forecast or grid.
C2_InvalidPolygonRejected ==
  (pc = "done" /\ InvalidPolygon(req.polygon))
    => (resp.status = 400 /\ steps = {} /\ tokenReqs = 0 /\ imageryReqs = 0)

\* C3: in a successful response data_source is "real" exactly when the series
\* and average came from the acquired payload (and, in the raster variant, the
\* grid from the raster), and "synthetic" whenever the generator produced them.
C3_ProvenanceMatchesData ==
  resp.status = 200 =>
    /\ resp.data_source = (IF locals.seriesFrom = "synthetic" THEN "synthetic" ELSE "real")
    /\ variant = "process" => (resp.data_source = "real" <=> locals.gridFrom = "raster")

ImageryUnavailable ==
  \/ tokenOutcome \in {"httperr", "neterr"}
  \/ payload.kind \in {"neterr", "httperr"}

\* C4: valid polygon, period p >= 1, imagery unavailable: the response is
\* synthetic with p+1 series points, 7 forecast points, 9 grid features, and
\* every stress zone is a grid feature.
C4_SyntheticShape ==
  (pc = "done" /\ ValidPolygon(req.polygon) /\ req.period >= 1 /\ ImageryUnavailable)
    => /\ resp.status = 200
       /\ resp.data_source = "synthetic"
       /\ Len(resp.time_series) = req.period + 1
       /\ Len(resp.forecast) = 7
       /\ Len(resp.health_grid) = 9
       /\ \A k \in 1..Len(resp.stress_zones) :
            \E m \in 1..Len(resp.health_grid) : resp.stress_zones[k] = resp.health_grid[m]

\* C5: an acquired raster that is entirely no-data is handled as an
\* acquisition failure: the response is a success tagged synthetic and the
\* grid is the synthetic one around the average, not the zero-filled raster.
C5_AllNoDataFallsBack ==
  (pc = "done" /\ variant = "process" /\ payload.kind = "body" /\ AllNoData(payload.raster))
    => /\ resp.status = 200
       /\ resp.data_source = "synthetic"
       /\ locals.gridFrom = "synthetic"
       /\ Len(resp.health_grid) = 9
       /\ resp.health_grid[1].ndvi = resp.summary.avg_ndvi + 100

C5_Witness ==
  /\ pc = "done"
  /\ payload.kind = "body"
  /\ payload.raster = Full(0, NoDataRaw, NoDataRaw)
  /\ resp.status = 200
  /\ locals.gridFrom = "synthetic"

FailedAnswer(p) == p.kind \in {"neterr", "httperr", "unparsable"}

\* C6: one request issues at most one imagery request; the answer to it, also
\* a failed one, ends the handler without another request, and a failed one
\* leads straight to the synthetic series and grid.
C6_SingleAttempt ==
  [][ /\ imageryReqs' <= 1
      /\ pc = "imagery" => (pc' = "done" /\ imageryReqs' = imageryReqs)
      /\ (pc = "imagery" /\ FailedAnswer(payload'))
           => /\ resp'.status = 200
              /\ locals'.seriesFrom = "synthetic"
              /\ locals'.gridFrom \in {"synthetic", "stats"} ]_vars

C6_Witness ==
  /\ pc = "done"
  /\ payload.kind = "httperr"
  /\ imageryReqs = 1
  /\ resp.status = 200
  /\ locals.seriesFrom = "synthetic"

\* C7 as stated: every value linearForecast returns lies in [0.1, 0.9], for
\* every input series, the empty and the one-point series included.
C7_Original ==
  fcOut # <<>> => \A h \in 1..Len(fcOut) : InRange(fcOut[h])

\* C7 amended: for a series of at least 2 finite numbers, and for the empty
\* series, every returned value lies in [0.1, 0.9]; a one-point series is
\* returned unclamped (0.5 for the point 0), so its forecast lies in the range
\* exactly when the point does or is 0.
C7_Amended ==
  fcOut # <<>> =>
    /\ Len(fcOut) = 7
    /\ Len(fcIn) # 1 => \A h \in 1..7 : InRange(fcOut[h])
    /\ Len(fcIn) = 1 =>
         \A h \in 1..7 : InRange(fcOut[h]) <=> (InRange(fcIn[1]) \/ fcIn[1] = 0)

C7_Witness ==
  /\ Len(fcIn) >= 2
  /\ fcIn[1] = 50
  /\ fcIn[Len(fcIn)] = 950
  /\ fcOut # <<>>
  /\ \A h \in 1..Len(fcOut) : fcOut[h] = 900

\* C8 as stated: on fewer than 2 points linearForecast returns 7 copies of
\* the last known value, 0.5 for the empty series; on a constant series of 2
\* or more points it returns that constant at all 7 horizons.
C8_Original ==
  fcOut # <<>> =>
    /\ Len(fcOut) = 7
    /\ Len(fcIn) = 0 => \A h \in 1..7 : fcOut[h] = 500
    /\ Len(fcIn) = 1 => \A h \in 1..7 : fcOut[h] = fcIn[1]
    /\ (Len(fcIn) >= 2 /\ \A k \in 1..Len(fcIn) : fcIn[k] = fcIn[1])
         => \A h \in 1..7 : fcOut[h] = fcIn[1]

Nearest(c) == IF c < 100 THEN 100 ELSE IF c > 900 THEN 900 ELSE c

\* C8 amended: the empty series gives 7 copies of 0.5; a one-point series
\* gives 7 copies of the point, of 0.5 when the point is 0; a constant series
\* of 2 or more points gives the constant limited to [0.1, 0.9] at all 7
\* horizons, hence the constant itself when it lies in that range.
C8_Amended ==
  fcOut # <<>> =>
    /\ Len(fcOut) = 7
    /\ Len(fcIn) = 0 => \A h \in 1..7 : fcOut[h] = 500
    /\ Len(fcIn) = 1 =>
         \A h \in 1..7 : fcOut[h] = (IF fcIn[1] = 0 THEN 500 ELSE fcIn[1])
    /\ (Len(fcIn) >= 2 /\ \A k \in 1..Len(fcIn) : fcIn[k] = fcIn[1])
         => \A h \in 1..7 : fcOut[h] = Nearest(fcIn[1])

C8_Witness ==
  /\ fcIn = <<700, 700, 700>>
  /\ fcOut = <<700, 700, 700, 700, 700, 700, 700>>

\* the bucket of an NDVI value: 1 excellent, 2 good, 3 moderate, 4 poor, 5 critical
Bucket(x) ==
  IF IsNaN(x) THEN 5
  ELSE IF x >= 700 THEN 1
  ELSE IF x >= 550 THEN 2
  ELSE IF x >= 400 THEN 3
  ELSE IF x >= 250 THEN 4
  ELSE 5

CellLabels == <<"otlichno", "horosho", "sredne", "ploho", "kritichno">>

CellColors == <<"#2e7d32", "#7cb342", "#fbc02d", "#f57c00", "#d32f2f">>

OverallLabels == <<"otlichnoe", "horoshee", "srednee", "plohoe", "kriticheskoe">>

\* C9: every NDVI value falls in exactly one of 5 buckets with inclusive lower
\* bounds 0.70, 0.55, 0.40, 0.25; the cell label, the cell color and the
\* overall label use the same cut points.
C9_HealthBuckets ==
  resp.status = 200 =>
    /\ \A k \in 1..Len(resp.health_grid) :
         /\ resp.health_grid[k].health = CellLabels[Bucket(resp.health_grid[k].ndvi)]
         /\ resp.health_grid[k].color = CellColors[Bucket(resp.health_grid[k].ndvi)]
    /\ resp.summary.health = OverallLabels[Bucket(resp.summary.avg_ndvi)]

C9_Witness ==
  /\ resp.status = 200
  /\ resp.summary.avg_ndvi = 700
  /\ resp.summary.health = "otlichnoe"
  /\ \E k \in 1..Len(resp.health_grid) :
       /\ resp.health_grid[k].ndvi = 700
       /\ resp.health_grid[k].health = "otlichno"
       /\ resp.health_grid[k].color = "#2e7d32"

BelowStress(c) == ~IsNaN(c.ndvi) /\ c.ndvi < 300

\* C10: stress_zones holds exactly the grid cells with ndvi < 0.30, in grid
\* order (0.30 itself is no stress zone), and stress_percent is
\* 100 * (number of such cells) / 9.
C10_StressZones ==
  resp.status = 200 =>
    LET below == { k \in 1..Len(resp.health_grid) : BelowStress(resp.health_grid[k]) }
        sp == resp.summary.stress_percent
    IN  /\ Len(resp.health_grid) = 9
        /\ Len(resp.stress_zones) = Cardinality(below)
        /\ \A k \in 1..Len(resp.stress_zones) : BelowStress(resp.stress_zones[k])
        /\ \A k \in below :
             \E m \in 1..Len(resp.stress_zones) : resp.stress_zones[m] = resp.health_grid[k]
        /\ sp.den > 0
        /\ sp.num * 9 = 100 * Cardinality(below) * sp.den
        /\ 0 <= sp.num /\ sp.num <= 100 * sp.den

C10_Witness ==
  /\ resp.status = 200
  /\ \E k \in 1..Len(resp.health_grid) : resp.health_grid[k].ndvi = 300
  /\ \E k \in 1..Len(resp.stress_zones) : resp.stress_zones[k].ndvi = 250
  /\ \A k \in 1..Len(resp.stress_zones) : resp.stress_zones[k].ndvi # 300
  /\ resp.summary.stress_percent.num * 9 = 100 * Len(resp.stress_zones) * resp.summary.stress_percent.den

\* the value the raster holds in column x
ColumnValue(r, x) == IF x < r.cut THEN r.a ELSE r.b

\* the columns of block column i
BlockCols(i) == BlockBound(i)..(BlockBound(i + 1) - 1)

\* block column i of a raster of at least 100 rows has a valid pixel
BlockHasValid(r, i) ==
  \E x \in BlockCols(i) : x < r.width /\ ~NoDataPixel(ColumnValue(r, x))

ValidPixelValues(r) ==
  { ColumnValue(r, x) : x \in { c \in 0..(r.width - 1) : ~NoDataPixel(ColumnValue(r, c)) } }

\* C11: what aggregateTo3x3 returns holds no NaN; a block without a valid
\* pixel holds 0, so a raster without any valid pixel gives the all-zero
\* matrix; when all valid pixels equal v, every block with a valid pixel holds v.
C11_AggregateNeverNaN ==
  callOut.pc = "returned" =>
    /\ \A jj \in 1..3, ii \in 1..3 : ~IsNaN(callOut.result[jj][ii])
    /\ \A jj \in 1..3, ii \in 1..3 :
         ~BlockHasValid(callIn, ii - 1) => callOut.result[jj][ii] = 0
    /\ AllNoData(callIn) => callOut.result = ZeroMatrix
    /\ \A v \in ValidPixelValues(callIn) :
         ValidPixelValues(callIn) = {v} =>
           \A jj \in 1..3, ii \in 1..3 :
             BlockHasValid(callIn, ii - 1) => callOut.result[jj][ii] = v

\* the left half of the raster is no-data, the right half holds 0.6
C11_Witness ==
  /\ callOut.pc = "returned"
  /\ callIn = Full(50, NoDataRaw, 600)
  /\ callOut.result = << <<0, 600, 600>>, <<0, 600, 600>>, <<0, 600, 600>> >>

\* the polygon is an array of pairs, at least 3 of them distinct
ThreeDistinct(polygon) ==
  /\ polygon.kind = "array"
  /\ \A k \in 1..Len(polygon.pts) : polygon.pts[k].ok
  /\ Cardinality({ <<polygon.pts[k].lng, polygon.pts[k].lat>> : k \in 1..Len(polygon.pts) }) >= 3

\* C12: for a polygon with at least 3 distinct vertices, the padded bounding
\* box the handler computed has minLng < maxLng and minLat < maxLat.
C12_PaddedBBoxProper ==
  ("bbox" \in steps /\ ThreeDistinct(req.polygon)) =>
    (bbox[1] < bbox[3] /\ bbox[2] < bbox[4])

\* C13: in every successful response summary.avg_ndvi is a number in [0, 1].
C13_AvgNdviInUnitRange ==
  resp.status = 200 =>
    (~IsNaN(resp.summary.avg_ndvi)
       /\ resp.summary.avg_ndvi >= 0 /\ resp.summary.avg_ndvi <= Scale)

\* a third of the span of the bbox along longitude and latitude
ThirdLng(b) == Div(b[3] - b[1], 3)

ThirdLat(b) == Div(b[4] - b[2], 3)

\* the cell the grid holds for column i and row j: i varies slowest
CellAt(grid, i, j) == grid[3 * i + j + 1]

\* the closed ring of the rectangle [w, e] x [s, n], from its south-west corner
RectRing(w, s, e, n) == << <<w, s>>, <<e, s>>, <<e, n>>, <<w, n>>, <<w, s>> >>

West(c) == c.ring[1][1]

South(c) == c.ring[1][2]

East(c) == c.ring[3][1]

North(c) == c.ring[3][2]

\* the open rectangles of two cells meet
Overlap(c, d) ==
  /\ West(c) < East(d) /\ West(d) < East(c)
  /\ South(c) < North(d) /\ South(d) < North(c)

MatrixMean(m) ==
  IF \E jj \in 1..3, ii \in 1..3 : IsNaN(m[jj][ii]) THEN NaN
  ELSE Round(m[1][1] + m[1][2] + m[1][3] + m[2][1] + m[2][2] + m[2][3]
               + m[3][1] + m[3][2] + m[3][3], 9)

\* C14: generateGridFromMatrix returns 9 cells; cell (i, j) is the closed
\* 5-point ring of the rectangle [minLng + i*stepX, minLng + (i+1)*stepX] x
\* [minLat + j*stepY, minLat + (j+1)*stepY] and carries matrix[j][i]; the
\* cells tile the bbox (neighbours share their edge, the outer edges are those
\* of the bbox up to the rounding of the third, no two cells overlap); the
\* returned average is the mean of the 9 cell values.
C14_GridTilesBBox ==
  callOut.pc = "returned" =>
    LET b == callIn.bbox
        g == callOut.grid
    IN  /\ Len(g) = 9
        /\ \A i \in 0..2, j \in 0..2 :
             /\ CellAt(g, i, j).ring =
                  RectRing(b[1] + i * ThirdLng(b), b[2] + j * ThirdLat(b),
                           b[1] + (i + 1) * ThirdLng(b), b[2] + (j + 1) * ThirdLat(b))
             /\ Len(CellAt(g, i, j).ring) = 5
             /\ CellAt(g, i, j).ring[1] = CellAt(g, i, j).ring[5]
             /\ CellAt(g, i, j).ndvi = callIn.matrix[j + 1][i + 1]
        /\ \A i \in 0..1, j \in 0..2 : East(CellAt(g, i, j)) = West(CellAt(g, i + 1, j))
        /\ \A i \in 0..2, j \in 0..1 : North(CellAt(g, i, j)) = South(CellAt(g, i, j + 1))
        /\ \A j \in 0..2 : West(CellAt(g, 0, j)) = b[1]
                           /\ East(CellAt(g, 2, j)) - b[3] \in -1..1
        /\ \A i \in 0..2 : South(CellAt(g, i, 0)) = b[2]
                           /\ North(CellAt(g, i, 2)) - b[4] \in -1..1
        /\ \A k \in 1..9, l \in 1..9 : k # l => ~Overlap(g[k], g[l])
        /\ callOut.avgNdvi = MatrixMean(callIn.matrix)

\* the cell of column 2, row 0 carries matrix[0][2] and lies in the south-east
C14_Witness ==
  /\ callOut.pc = "returned"
  /\ callIn.bbox = <<0, 0, 3000, 3000>>
  /\ callIn.matrix = << <<100, 200, 300>>, <<400, 500, 600>>, <<700, 800, 900>> >>
  /\ callOut.grid[7].ndvi = 300
  /\ callOut.grid[7].ring = << <<2000, 0>>, <<3000, 0>>, <<3000, 1000>>,
                               <<2000, 1000>>, <<2000, 0>> >>
  /\ callOut.avgNdvi = 500

\* a token is cached and the time is more than 300000 ms before tokenExpiry
CacheUsable == cachedToken # "null" /\ tokenExpiry - now > 300000

CacheUntouched == cachedToken' = cachedToken /\ tokenExpiry' = tokenExpiry

\* C15: whatever the interleaving of the calls, a call of getAccessToken that
\* finds a usable cache issues no token request and returns the cached token,
\* leaving the cache alone; any other call issues exactly one token request;
\* its success stores the new token together with its expiry; its failure
\* leaves cachedToken and tokenExpiry as they are and raises; cachedToken is
\* null exactly when tokenExpiry is 0.
C15_TokenCache ==
  [][ /\ \A c \in Callers :
           /\ (callers[c].pc = "idle" /\ callers'[c].pc # "idle") =>
                /\ CacheUntouched
                /\ IF CacheUsable
                   THEN /\ callers'[c].pc = "returned"
                        /\ callers'[c].reqs = 0
                        /\ callers'[c].ret = cachedToken
                   ELSE /\ callers'[c].pc = "fetch"
                        /\ callers'[c].reqs = 1
           /\ (callers[c].pc = "fetch" /\ callers'[c].pc = "returned") =>
                /\ callers'[c].reqs = 1
                /\ callers'[c].ret \in Tokens
                /\ cachedToken' = callers'[c].ret
                /\ tokenExpiry' = now + callers'[c].expires_in * 1000
           /\ (callers[c].pc = "fetch" /\ callers'[c].pc # "returned") =>
                \/ callers'[c] = callers[c]
                \/ callers'[c].pc = "threw" /\ callers'[c].reqs = 1 /\ CacheUntouched
      /\ (cachedToken' = "null") <=> (tokenExpiry' = 0) ]_vars

\* caller 1 was served from the cache while the refresh of caller 2, begun
\* before the cache was filled, has failed
C15_Witness ==
  /\ MaxCallers >= 2
  /\ callers[1].pc = "returned" /\ callers[1].reqs = 0 /\ callers[1].ret = cachedToken
  /\ callers[2].pc = "threw" /\ callers[2].reqs = 1
  /\ cachedToken \in Tokens
  /\ tokenExpiry - now > 300000

====
